---- MODULE Spec2Model ----
(***************************************************************************)
(* State-machine model of the MAXRECTS rectangle packer (src/src/lib.rs).  *)
(* One RectPacker<S> instance, S an unsigned integer scalar.  Vec indices  *)
(* are 1-based here (Rust index k is k+1).                                 *)
(***************************************************************************)
EXTENDS Integers, Sequences, FiniteSets, TLC

\* ---------------------------------------------------------------- bounds
MaxCoord == 2      \* coordinates and item sides range over 0..MaxCoord
MaxOps == 4        \* registrations plus placements per packer lifetime

Coord == 0..MaxCoord

\* ------------------------------------------------------------- Rectangle
Rectangle(min, max) == [min |-> min, max |-> max]

intersects(self, other) ==
    /\ self.min[1] < other.max[1]
    /\ self.min[2] < other.max[2]
    /\ self.max[1] > other.min[1]
    /\ self.max[2] > other.min[2]

supersets(self, other) ==
    /\ self.min[1] <= other.min[1]
    /\ self.min[2] <= other.min[2]
    /\ self.max[1] >= other.max[1]
    /\ self.max[2] >= other.max[2]

dimensions(self) == <<self.max[1] - self.min[1], self.max[2] - self.min[2]>>

\* Option<T>: None is the empty sequence, Some(v) the one-element sequence.
None == <<>>
Some(v) == <<v>>
IsSome(o) == Len(o) = 1
Unwrap(o) == o[1]

partial_min(a, b) == IF a <= b THEN a ELSE b

\* Variant of bssf that wants strictly more room than the size.
bssf_Strict(sup, sub) ==
    IF sup[1] > sub[1] /\ sup[2] > sub[2]
    THEN Some(partial_min(sup[1] - sub[1], sup[2] - sub[2]))
    ELSE None

\* Variant of bssf that compares the widths only.
bssf_WidthOnly(sup, sub) ==
    IF sup[1] >= sub[1]
    THEN Some(partial_min(sup[1] - sub[1], sup[2] - sub[2]))
    ELSE None

bssf(sup, sub) ==
    IF sup[1] >= sub[1] /\ sup[2] >= sub[2]
    THEN Some(partial_min(sup[1] - sub[1], sup[2] - sub[2]))
    ELSE None

\* Variant of MinFold that also replaces the minimum on a tie.
RECURSIVE MinFold_LastWins(_, _, _)
MinFold_LastWins(cands, k, min) ==
    IF k > Len(cands) THEN min
    ELSE IF IsSome(min)
         THEN IF Unwrap(min).h >= cands[k].h
              THEN MinFold_LastWins(cands, k + 1, Some(cands[k]))
              ELSE MinFold_LastWins(cands, k + 1, min)
         ELSE MinFold_LastWins(cands, k + 1, Some(cands[k]))

\* Variant of MinFold that never replaces the first element.
RECURSIVE MinFold_KeepFirst(_, _, _)
MinFold_KeepFirst(cands, k, min) ==
    IF k > Len(cands) THEN min
    ELSE IF IsSome(min)
         THEN MinFold_KeepFirst(cands, k + 1, min)
         ELSE MinFold_KeepFirst(cands, k + 1, Some(cands[k]))

\* min_cmp: left fold keeping the current minimum unless it compares
\* Greater than the next element; cands are records with a score field h.
RECURSIVE MinFold(_, _, _)
MinFold(cands, k, min) ==
    IF k > Len(cands) THEN min
    ELSE IF IsSome(min)
         THEN IF Unwrap(min).h > cands[k].h
              THEN MinFold(cands, k + 1, Some(cands[k]))
              ELSE MinFold(cands, k + 1, min)
         ELSE MinFold(cands, k + 1, Some(cands[k]))

min_cmp(cands) == MinFold(cands, 1, None)

\* ------------------------------------------------------------ RectPacker
\* filter_map of optimal: the free rectangles that can hold size, in list
\* order, each with its heuristic.
RECURSIVE OptimalCands(_, _, _)
OptimalCands(e, size, k) ==
    IF k > Len(e) THEN <<>>
    ELSE LET s == bssf(dimensions(e[k]), size) IN
         (IF IsSome(s) THEN <<[x |-> e[k], h |-> Unwrap(s)]>> ELSE <<>>)
            \o OptimalCands(e, size, k + 1)

optimal(e, size) ==
    LET m == min_cmp(OptimalCands(e, size, 1)) IN
    IF IsSome(m) THEN Some([pos |-> Unwrap(m).x.min, h |-> Unwrap(m).h])
    ELSE None

\* Variant of swap_remove that drops the last element whatever the index.
swap_remove_PopLast(v, k) ==
    [n \in 1..(Len(v) - 1) |-> v[n]]

swap_remove(v, k) ==
    [n \in 1..(Len(v) - 1) |-> IF n = k THEN v[Len(v)] ELSE v[n]]

\* Variant of Residuals whose right residual starts at sub.min.0.
Residuals_RightFromMin(free, sub) ==
    (IF sub.min[1] > free.min[1]
        THEN <<Rectangle(free.min, <<sub.min[1], free.max[2]>>)>> ELSE <<>>)
    \o (IF sub.min[2] > free.min[2]
        THEN <<Rectangle(free.min, <<free.max[1], sub.min[2]>>)>> ELSE <<>>)
    \o (IF sub.max[1] < free.max[1]
        THEN <<Rectangle(<<sub.min[1], free.min[2]>>, free.max)>> ELSE <<>>)
    \o (IF sub.max[2] < free.max[2]
        THEN <<Rectangle(<<free.min[1], sub.max[2]>>, free.max)>> ELSE <<>>)

\* Variant of Residuals that cuts the right residual off at sub.max.1, as a
\* guillotine split does.
Residuals_Guillotine(free, sub) ==
    (IF sub.min[1] > free.min[1]
        THEN <<Rectangle(free.min, <<sub.min[1], free.max[2]>>)>> ELSE <<>>)
    \o (IF sub.min[2] > free.min[2]
        THEN <<Rectangle(free.min, <<free.max[1], sub.min[2]>>)>> ELSE <<>>)
    \o (IF sub.max[1] < free.max[1]
        THEN <<Rectangle(<<sub.max[1], free.min[2]>>,
                         <<free.max[1], sub.max[2]>>)>> ELSE <<>>)
    \o (IF sub.max[2] < free.max[2]
        THEN <<Rectangle(<<free.min[1], sub.max[2]>>, free.max)>> ELSE <<>>)

\* Variant of Residuals that also emits a left residual when sub starts on
\* the left edge of free.
Residuals_LeftInclusive(free, sub) ==
    (IF sub.min[1] >= free.min[1]
        THEN <<Rectangle(free.min, <<sub.min[1], free.max[2]>>)>> ELSE <<>>)
    \o (IF sub.min[2] > free.min[2]
        THEN <<Rectangle(free.min, <<free.max[1], sub.min[2]>>)>> ELSE <<>>)
    \o (IF sub.max[1] < free.max[1]
        THEN <<Rectangle(<<sub.max[1], free.min[2]>>, free.max)>> ELSE <<>>)
    \o (IF sub.max[2] < free.max[2]
        THEN <<Rectangle(<<free.min[1], sub.max[2]>>, free.max)>> ELSE <<>>)

\* Variant of Residuals that pushes all four rectangles whatever the
\* position of sub inside free.
Residuals_Unguarded(free, sub) ==
    << Rectangle(free.min, <<sub.min[1], free.max[2]>>),
       Rectangle(free.min, <<free.max[1], sub.min[2]>>),
       Rectangle(<<sub.max[1], free.min[2]>>, free.max),
       Rectangle(<<free.min[1], sub.max[2]>>, free.max) >>

\* The up-to-four rectangles pushed for one intersecting free rectangle.
Residuals(free, sub) ==
    (IF sub.min[1] > free.min[1]
        THEN <<Rectangle(free.min, <<sub.min[1], free.max[2]>>)>> ELSE <<>>)
    \o (IF sub.min[2] > free.min[2]
        THEN <<Rectangle(free.min, <<free.max[1], sub.min[2]>>)>> ELSE <<>>)
    \o (IF sub.max[1] < free.max[1]
        THEN <<Rectangle(<<sub.max[1], free.min[2]>>, free.max)>> ELSE <<>>)
    \o (IF sub.max[2] < free.max[2]
        THEN <<Rectangle(<<free.min[1], sub.max[2]>>, free.max)>> ELSE <<>>)

\* Variant of ScanLoop that steps over the element swapped into index even
\* when no derived rectangle exists.
RECURSIVE ScanLoop_AlwaysStep(_, _, _, _)
ScanLoop_AlwaysStep(e, sub, index, derived) ==
    IF ~(index <= Len(e) - derived) THEN e
    ELSE LET free == e[index] IN
         IF intersects(free, sub)
         THEN LET res == Residuals(free, sub)
                  d1 == derived + Len(res)
                  e2 == swap_remove(e \o res, index)
              IN IF d1 > 0
                 THEN ScanLoop_AlwaysStep(e2, sub, index + 1, d1 - 1)
                 ELSE ScanLoop_AlwaysStep(e2, sub, index + 1, d1)
         ELSE ScanLoop_AlwaysStep(e, sub, index + 1, derived)

\* Variant of ScanLoop that does not take the rectangle swapped into index
\* off the count of derived rectangles.
RECURSIVE ScanLoop_KeepDerived(_, _, _, _)
ScanLoop_KeepDerived(e, sub, index, derived) ==
    IF ~(index <= Len(e) - derived) THEN e
    ELSE LET free == e[index] IN
         IF intersects(free, sub)
         THEN LET res == Residuals(free, sub)
                  d1 == derived + Len(res)
                  e2 == swap_remove(e \o res, index)
              IN IF d1 > 0
                 THEN ScanLoop_KeepDerived(e2, sub, index + 1, d1)
                 ELSE ScanLoop_KeepDerived(e2, sub, index, d1)
         ELSE ScanLoop_KeepDerived(e, sub, index + 1, derived)

\* First loop of subtract_rect: index and derived as in the source.
RECURSIVE ScanLoop(_, _, _, _)
ScanLoop(e, sub, index, derived) ==
    IF ~(index <= Len(e) - derived) THEN e
    ELSE LET free == e[index] IN
         IF intersects(free, sub)
         THEN LET res == Residuals(free, sub)
                  d1 == derived + Len(res)
                  e2 == swap_remove(e \o res, index)
              IN IF d1 > 0
                 THEN ScanLoop(e2, sub, index + 1, d1 - 1)
                 ELSE ScanLoop(e2, sub, index, d1)
         ELSE ScanLoop(e, sub, index + 1, derived)

\* Variant of PruneLoop that moves on to j + 1 after removing index j.
RECURSIVE PruneLoop_SkipSwapped(_, _, _)
PruneLoop_SkipSwapped(e, i, j) ==
    IF ~(i <= Len(e)) THEN e
    ELSE IF ~(j <= Len(e)) THEN PruneLoop_SkipSwapped(e, i + 1, i + 2)
    ELSE IF supersets(e[i], e[j])
         THEN PruneLoop_SkipSwapped(swap_remove(e, j), i, j + 1)
    ELSE IF supersets(e[j], e[i])
         THEN PruneLoop_SkipSwapped(swap_remove(e, i), i, i + 1)
    ELSE PruneLoop_SkipSwapped(e, i, j + 1)

\* Variant of PruneLoop that removes the containing rectangle of a pair.
RECURSIVE PruneLoop_DropsSuperset(_, _, _)
PruneLoop_DropsSuperset(e, i, j) ==
    IF ~(i <= Len(e)) THEN e
    ELSE IF ~(j <= Len(e)) THEN PruneLoop_DropsSuperset(e, i + 1, i + 2)
    ELSE IF supersets(e[i], e[j])
         THEN PruneLoop_DropsSuperset(swap_remove(e, i), i, i + 1)
    ELSE IF supersets(e[j], e[i])
         THEN PruneLoop_DropsSuperset(swap_remove(e, j), i, j)
    ELSE PruneLoop_DropsSuperset(e, i, j + 1)

\* Second loop of subtract_rect: pairwise removal of subsets.
RECURSIVE PruneLoop(_, _, _)
PruneLoop(e, i, j) ==
    IF ~(i <= Len(e)) THEN e
    ELSE IF ~(j <= Len(e)) THEN PruneLoop(e, i + 1, i + 2)
    ELSE IF supersets(e[i], e[j]) THEN PruneLoop(swap_remove(e, j), i, j)
    ELSE IF supersets(e[j], e[i]) THEN PruneLoop(swap_remove(e, i), i, i + 1)
    ELSE PruneLoop(e, i, j + 1)

subtract_rect(e, sub) == PruneLoop(ScanLoop(e, sub, 1, 0), 1, 2)

\* The free list with every entry tagged by its index at the start of
\* subtract_rect; rectangles pushed during the scan carry tag 0.
Tagged(e) == [k \in DOMAIN e |-> [rect |-> e[k], tag |-> k]]
Derived(res) == [k \in DOMAIN res |-> [rect |-> res[k], tag |-> 0]]

\* Variant of ScanTrace that steps over the entry swapped into index even
\* when no derived rectangle exists.
RECURSIVE ScanTrace_AlwaysStep(_, _, _, _, _)
ScanTrace_AlwaysStep(te, sub, index, derived, tested) ==
    LET head == [e |-> te, index |-> index, derived |-> derived,
                 tested |-> tested]
    IN  IF ~(index <= Len(te) - derived) THEN <<head>>
        ELSE LET free == te[index].rect
                 t1 == Append(tested, te[index].tag)
             IN  IF intersects(free, sub)
                 THEN LET res == Residuals(free, sub)
                          d1 == derived + Len(res)
                          e2 == swap_remove(te \o Derived(res), index)
                      IN  <<head>> \o
                          (IF d1 > 0
                           THEN ScanTrace_AlwaysStep(e2, sub, index + 1,
                                                     d1 - 1, t1)
                           ELSE ScanTrace_AlwaysStep(e2, sub, index + 1,
                                                     d1, t1))
                 ELSE <<head>> \o
                      ScanTrace_AlwaysStep(te, sub, index + 1, derived, t1)

\* The first loop of subtract_rect run on a tagged list: the sequence of
\* configurations met at the loop head (the last one is where the loop
\* exits), each with the tags of the entries read as `free` so far.
RECURSIVE ScanTrace(_, _, _, _, _)
ScanTrace(te, sub, index, derived, tested) ==
    LET head == [e |-> te, index |-> index, derived |-> derived,
                 tested |-> tested]
    IN  IF ~(index <= Len(te) - derived) THEN <<head>>
        ELSE LET free == te[index].rect
                 t1 == Append(tested, te[index].tag)
             IN  IF intersects(free, sub)
                 THEN LET res == Residuals(free, sub)
                          d1 == derived + Len(res)
                          e2 == swap_remove(te \o Derived(res), index)
                      IN  <<head>> \o
                          (IF d1 > 0
                           THEN ScanTrace(e2, sub, index + 1, d1 - 1, t1)
                           ELSE ScanTrace(e2, sub, index, d1, t1))
                 ELSE <<head>> \o ScanTrace(te, sub, index + 1, derived, t1)

\* Iteration n of a trace removed the entry at index and swap_remove put
\* another entry in its place.
MovedIn(tr, sub, n) ==
    /\ intersects(tr[n].e[tr[n].index].rect, sub)
    /\ tr[n].index <= Len(tr[n + 1].e)

\* Whether some iteration of the scan stepped over a derived rectangle
\* swapped into index, and whether some iteration left index in place for
\* the entry swapped into it.
NoScan == [skipped |-> FALSE, moved |-> FALSE]
ScanFlags(e, sub) ==
    LET tr == ScanTrace(Tagged(e), sub, 1, 0, <<>>)
    IN  [skipped |-> \E n \in 1..(Len(tr) - 1) :
                        MovedIn(tr, sub, n) /\ tr[n + 1].index = tr[n].index + 1,
         moved   |-> \E n \in 1..(Len(tr) - 1) :
                        MovedIn(tr, sub, n) /\ tr[n + 1].index = tr[n].index]

\* ----------------------------------------------------------------- state
VARIABLES
    empty,       \* RectPacker.empty: Vec<Rectangle<S>>
    pc,          \* "idle", or "global" inside the loop of pack_global
    objects,     \* pack_global: items not yet packed
    packed,      \* pack_global: (item, position) pairs packed so far
    call,        \* name of the call in progress or last completed
    input,       \* history: the objects given to the latest pack_global call
    ret,         \* what the last completed call returned
    registered,  \* history: rectangles pushed by add_free
    placed,      \* history: occupied rectangles of successful placements
    viable,      \* history: ids of items optimal() accepted in some round
                 \*   of the latest pack_global call
    nAdd,        \* history: number of rectangles pushed by add_free
    lateAdd,     \* history: add_free was called after a placement
    refreed,     \* history: add_free registered area over a placement
    emptyAtCall, \* history: the free list when the latest pack_global began
    scan         \* history: what the scan of the latest subtract_rect met

vars == <<empty, pc, objects, packed, call, input, ret, registered, placed,
          viable, nAdd, lateAdd, refreed, emptyAtCall, scan>>

NoRet == [kind |-> "Unit", pos |-> <<0, 0>>, packed |-> <<>>, original |-> <<>>]

Init ==
    /\ empty = <<>>
    /\ pc = "idle"
    /\ objects = <<>>
    /\ packed = <<>>
    /\ call = "new"
    /\ input = <<>>
    /\ ret = NoRet
    /\ registered = {}
    /\ placed = <<>>
    /\ viable = {}
    /\ nAdd = 0
    /\ lateAdd = FALSE
    /\ refreed = FALSE
    /\ emptyAtCall = <<>>
    /\ scan = NoScan

\* ------------------------------------------------------------- add_free
\* Variant of AddFreePanics that looks at the x axis only.
AddFreePanics_XOnly(min, max) == min[1] > max[1]

AddFreePanics(min, max) == min[1] > max[1] \/ min[2] > max[2]

add_free(e, min, max) ==
    IF AddFreePanics(min, max) THEN e ELSE Append(e, Rectangle(min, max))

AddFree(min, max) ==
    /\ pc = "idle"
    /\ nAdd + Len(placed) < MaxOps
    /\ nAdd' = IF AddFreePanics(min, max) THEN nAdd ELSE nAdd + 1
    /\ empty' = add_free(empty, min, max)
    /\ call' = "add_free"
    /\ ret' = [NoRet EXCEPT !.kind =
                  IF AddFreePanics(min, max) THEN "Panic" ELSE "Unit"]
    /\ registered' = IF AddFreePanics(min, max) THEN registered
                     ELSE registered \cup {Rectangle(min, max)}
    /\ lateAdd' = (lateAdd \/ (~AddFreePanics(min, max) /\ Len(placed) > 0))
    /\ refreed' = (refreed \/ (~AddFreePanics(min, max) /\
                      \E k \in DOMAIN placed :
                          intersects(Rectangle(min, max), placed[k])))
    /\ input' = <<>>
    /\ viable' = {}
    /\ emptyAtCall' = <<>>
    /\ scan' = NoScan
    /\ UNCHANGED <<pc, objects, packed, placed>>

\* ----------------------------------------------------------------- pack
\* Variant of Pack that prunes the free list also when nothing fits.
Pack_PruneOnNone(width, height) ==
    /\ pc = "idle"
    /\ nAdd + Len(placed) < MaxOps
    /\ LET o == optimal(empty, <<width, height>>) IN
       /\ call' = "pack"
       /\ IF IsSome(o)
          THEN LET position == Unwrap(o).pos
                   max == <<position[1] + width, position[2] + height>>
               IN /\ empty' = subtract_rect(empty, Rectangle(position, max))
                  /\ placed' = Append(placed, Rectangle(position, max))
                  /\ ret' = [NoRet EXCEPT !.kind = "Some", !.pos = position]
                  /\ scan' = ScanFlags(empty, Rectangle(position, max))
          ELSE /\ ret' = [NoRet EXCEPT !.kind = "None"]
               /\ empty' = PruneLoop(empty, 1, 2)
               /\ scan' = NoScan
               /\ UNCHANGED placed
    /\ input' = <<>>
    /\ viable' = {}
    /\ emptyAtCall' = <<>>
    /\ UNCHANGED <<pc, objects, packed, registered, nAdd, lateAdd, refreed>>

Pack(width, height) ==
    /\ pc = "idle"
    /\ nAdd + Len(placed) < MaxOps
    /\ LET o == optimal(empty, <<width, height>>) IN
       /\ call' = "pack"
       /\ IF IsSome(o)
          THEN LET position == Unwrap(o).pos
                   max == <<position[1] + width, position[2] + height>>
               IN /\ empty' = subtract_rect(empty, Rectangle(position, max))
                  /\ placed' = Append(placed, Rectangle(position, max))
                  /\ ret' = [NoRet EXCEPT !.kind = "Some", !.pos = position]
                  /\ scan' = ScanFlags(empty, Rectangle(position, max))
          ELSE /\ ret' = [NoRet EXCEPT !.kind = "None"]
               /\ scan' = NoScan
               /\ UNCHANGED <<empty, placed>>
    /\ input' = <<>>
    /\ viable' = {}
    /\ emptyAtCall' = <<>>
    /\ UNCHANGED <<pc, objects, packed, registered, nAdd, lateAdd, refreed>>

\* ---------------------------------------------------------- pack_global
\* Items are records; mapping is the caller's closure from item to size.
mapping(x) == x.size

\* Variant of GlobalCands that leaves out the last object.
RECURSIVE GlobalCands_SkipLast(_, _, _)
GlobalCands_SkipLast(objs, e, k) ==
    IF k >= Len(objs) THEN <<>>
    ELSE LET size == mapping(objs[k])
             o == optimal(e, size)
         IN (IF IsSome(o)
             THEN <<[x |-> [index |-> k, pos |-> Unwrap(o).pos, size |-> size],
                     h |-> Unwrap(o).h]>>
             ELSE <<>>) \o GlobalCands_SkipLast(objs, e, k + 1)

\* Variant of GlobalCands that stops at the first object optimal() rejects.
RECURSIVE GlobalCands_StopAtFirstNone(_, _, _)
GlobalCands_StopAtFirstNone(objs, e, k) ==
    IF k > Len(objs) THEN <<>>
    ELSE LET size == mapping(objs[k])
             o == optimal(e, size)
         IN IF IsSome(o)
            THEN <<[x |-> [index |-> k, pos |-> Unwrap(o).pos, size |-> size],
                    h |-> Unwrap(o).h]>>
                    \o GlobalCands_StopAtFirstNone(objs, e, k + 1)
            ELSE <<>>

\* filter_map of pack_global: for every remaining object that optimal()
\* can place, ((index, pos, size), h), in the order of objects.
RECURSIVE GlobalCands(_, _, _)
GlobalCands(objs, e, k) ==
    IF k > Len(objs) THEN <<>>
    ELSE LET size == mapping(objs[k])
             o == optimal(e, size)
         IN (IF IsSome(o)
             THEN <<[x |-> [index |-> k, pos |-> Unwrap(o).pos, size |-> size],
                     h |-> Unwrap(o).h]>>
             ELSE <<>>) \o GlobalCands(objs, e, k + 1)

GlobalMin(objs, e) ==
    LET m == min_cmp(GlobalCands(objs, e, 1)) IN
    IF IsSome(m) THEN Some(Unwrap(m).x) ELSE None

ViableIds(objs, e) ==
    {objs[k].id : k \in {n \in DOMAIN objs : IsSome(optimal(e, mapping(objs[n])))}}

\* Variant of GlobalResult that looks at packed instead of objects.
GlobalResult_ByPacked(objs, pk) ==
    IF pk # <<>>
    THEN [NoRet EXCEPT !.kind = "Ok", !.packed = pk]
    ELSE [NoRet EXCEPT !.kind = "Err", !.packed = pk, !.original = objs]

\* What pack_global returns once no minimum is found: Ok(packed), or
\* Err(FailedPacking{partial_packed: packed, original: objects}).
GlobalResult(objs, pk) ==
    IF objs = <<>>
    THEN [NoRet EXCEPT !.kind = "Ok", !.packed = pk]
    ELSE [NoRet EXCEPT !.kind = "Err", !.packed = pk, !.original = objs]

PackGlobalCall(items) ==
    /\ pc = "idle"
    /\ nAdd + Len(placed) + Len(items) <= MaxOps
    /\ pc' = "global"
    /\ objects' = items
    /\ packed' = <<>>
    /\ call' = "pack_global"
    /\ input' = items
    /\ ret' = NoRet
    /\ viable' = {}
    /\ emptyAtCall' = empty
    /\ scan' = NoScan
    /\ UNCHANGED <<empty, registered, placed, nAdd, lateAdd, refreed>>

\* One iteration of the loop that finds a minimum and commits it.
PackGlobalCommit ==
    /\ pc = "global"
    /\ LET min == GlobalMin(objects, empty) IN
       /\ IsSome(min)
       /\ LET index == Unwrap(min).index
              x == Unwrap(min).pos[1]
              y == Unwrap(min).pos[2]
              xsize == Unwrap(min).size[1]
              ysize == Unwrap(min).size[2]
              element == objects[index]
              max == <<x + xsize, y + ysize>>
          IN /\ objects' = swap_remove(objects, index)
             /\ empty' = subtract_rect(empty, Rectangle(<<x, y>>, max))
             /\ packed' = Append(packed, [item |-> element, pos |-> <<x, y>>])
             /\ placed' = Append(placed, Rectangle(<<x, y>>, max))
             /\ scan' = ScanFlags(empty, Rectangle(<<x, y>>, max))
    /\ viable' = viable \cup ViableIds(objects, empty)
    /\ UNCHANGED <<pc, call, input, ret, registered, nAdd, lateAdd, refreed,
                   emptyAtCall>>

\* Variant of PackGlobalReturn that puts the free list back on failure.
PackGlobalReturn_RollsBack ==
    /\ pc = "global"
    /\ ~IsSome(GlobalMin(objects, empty))
    /\ ret' = GlobalResult(objects, packed)
    /\ pc' = "idle"
    /\ objects' = <<>>
    /\ packed' = <<>>
    /\ viable' = viable \cup ViableIds(objects, empty)
    /\ empty' = IF objects = <<>> THEN empty ELSE emptyAtCall
    /\ UNCHANGED <<call, input, registered, placed, nAdd, lateAdd,
                   refreed, emptyAtCall, scan>>

\* The iteration that finds no minimum and returns.
PackGlobalReturn ==
    /\ pc = "global"
    /\ ~IsSome(GlobalMin(objects, empty))
    /\ ret' = GlobalResult(objects, packed)
    /\ pc' = "idle"
    /\ objects' = <<>>
    /\ packed' = <<>>
    /\ viable' = viable \cup ViableIds(objects, empty)
    /\ UNCHANGED <<empty, call, input, registered, placed, nAdd, lateAdd,
                   refreed, emptyAtCall, scan>>

\* FailedPacking::restore: partial_packed's items pushed onto original.
RECURSIVE restore(_, _)
restore(partial_packed, original) ==
    IF partial_packed = <<>> THEN original
    ELSE restore(Tail(partial_packed), Append(original, Head(partial_packed).item))

\* ---------------------------------------------------------------- inputs
\* Regions offered to add_free: the whole canvas, a part of it, a region
\* with min = max on one axis, and regions inverted in x, in y and in both.
AddInputs ==
    {<<<<0, 0>>, <<MaxCoord, MaxCoord>>>>,
     <<<<1, 1>>, <<MaxCoord, MaxCoord>>>>,
     <<<<1, 1>>, <<1, MaxCoord>>>>,
     <<<<1, 1>>, <<0, MaxCoord>>>>,
     <<<<1, 1>>, <<MaxCoord, 0>>>>,
     <<<<1, 1>>, <<0, 0>>>>}
\* Sizes offered to pack: every positive size, and sizes with a zero side.
Sizes == ((1..MaxCoord) \X (1..MaxCoord)) \cup {<<0, 0>>, <<0, 1>>, <<1, 0>>}
\* Sizes of the items offered to pack_global: the empty size, the unit
\* square, a full-height strip and the whole canvas.
GlobalSizes ==
    {<<0, 0>>, <<1, 1>>, <<1, MaxCoord>>, <<MaxCoord, MaxCoord>>}
GlobalInputs(maxLen) ==
    {[k \in DOMAIN s |-> [id |-> k, size |-> s[k]]] :
        s \in UNION {[1..n -> GlobalSizes] : n \in 0..maxLen}}

Next ==
    \/ \E in \in AddInputs : AddFree(in[1], in[2])
    \/ \E size \in Sizes : Pack(size[1], size[2])
    \/ \E items \in GlobalInputs(MaxOps - (nAdd + Len(placed))) :
          PackGlobalCall(items)
    \/ PackGlobalCommit
    \/ PackGlobalReturn

Spec == Init /\ [][Next]_vars

\* pack_global is straight-line sequential code: once called, its loop keeps
\* running.  This is weak fairness of GlobalStep with its enabling condition
\* written out: the if/else of the loop body makes an iteration possible in
\* every state with pc = "global".
GlobalStep == PackGlobalCommit \/ PackGlobalReturn
FairSpec ==
    Spec /\ ([]<>(pc # "global") \/ []<><<GlobalStep>>_vars)

\* ================================================================ claims
LastPlaced == placed[Len(placed)]
Placing == Len(placed') > Len(placed)
NewPlaced == placed'[Len(placed')]

PositiveArea(r) == r.min[1] < r.max[1] /\ r.min[2] < r.max[2]

NoOverlap ==
    \A i \in DOMAIN placed : \A j \in DOMAIN placed :
        i # j => ~intersects(placed[i], placed[j])

\* C1 (as stated): over any sequence of add_free, pack and pack_global
\* calls, no two distinct placements of a packer's lifetime intersect.
C1_Original == NoOverlap

\* C1 (amended): as long as no add_free call has registered a region that
\* intersects an already placed rectangle, no two distinct placements
\* intersect.
C1_NoOverlapUnlessRefreed == ~refreed => NoOverlap

\* C1 witness: a placement made after a later add_free of untouched area,
\* next to an earlier placement, both of positive area.
C1_Witness ==
    /\ ~refreed /\ lateAdd
    /\ call = "pack" /\ ret.kind = "Some"
    /\ Len(placed) >= 2
    /\ Cardinality({r \in registered : PositiveArea(r)}) >= 2
    /\ \A k \in DOMAIN placed : PositiveArea(placed[k])

\* C2: when every add_free precedes the first placement, each newly placed
\* rectangle intersects none of the rectangles placed before it.
C2_NewPlacementDisjoint ==
    [][(Placing /\ ~lateAdd') =>
          \A k \in DOMAIN placed : ~intersects(NewPlaced, placed[k])]_vars

\* C2 witness: three placements of positive area with no late add_free.
C2_Witness ==
    /\ ~lateAdd
    /\ Len(placed) >= 3
    /\ \A k \in DOMAIN placed : PositiveArea(placed[k])

\* C3: every placement lies inside one free rectangle of the free list at
\* the moment it is made, and inside one rectangle registered by add_free
\* (hence inside the union of the registered rectangles).
C3_PlacementContained ==
    [][Placing =>
          /\ \E i \in DOMAIN empty : supersets(empty[i], NewPlaced)
          /\ \E r \in registered : supersets(r, NewPlaced)]_vars

\* C3 witness: a placement that fills its free rectangle on neither axis,
\* made where two different regions are registered.
C3_Witness ==
    /\ Len(placed) >= 2
    /\ Cardinality(registered) >= 2
    /\ \E r \in registered :
          /\ supersets(r, LastPlaced)
          /\ LastPlaced.max[1] < r.max[1]
          /\ PositiveArea(LastPlaced)

\* Independent reading of "free rectangle f can contain size".
CanContain(f, size) ==
    f.max[1] - f.min[1] >= size[1] /\ f.max[2] - f.min[2] >= size[2]

\* C4: pack(width, height) returns None exactly when no rectangle of the
\* free list is at least width wide and height high.
C4_PackNoneIffNothingFits ==
    [][\A size \in Sizes :
          Pack(size[1], size[2]) =>
              (ret'.kind = "None" <=>
                  ~\E i \in DOMAIN empty : CanContain(empty[i], size))]_vars

\* C4 witness: pack returned None although free rectangles remain, after
\* an earlier placement.
C4_Witness ==
    /\ call = "pack" /\ ret.kind = "None"
    /\ Len(empty) >= 2
    /\ Len(placed) >= 1

\* A state reached by a subtraction: a successful pack, or a committed
\* round of pack_global (the return leaves the free list alone).
AfterSubtract ==
    \/ call = "pack" /\ ret.kind = "Some"
    \/ call = "pack_global" /\ (Len(packed) > 0 \/ Len(ret.packed) > 0)

\* C5: right after a subtraction no entry of the free list contains the
\* entry at another index, equal entries included.
C5_NoContainmentAfterSubtract ==
    AfterSubtract =>
        \A i \in DOMAIN empty : \A j \in DOMAIN empty :
            i # j => ~supersets(empty[i], empty[j])

\* C5 witness: after a subtraction over overlapping registered regions the
\* free list still holds two rectangles that overlap each other.
C5_Witness ==
    /\ AfterSubtract
    /\ Cardinality(registered) >= 2
    /\ \E i \in DOMAIN empty : \E j \in DOMAIN empty :
          i # j /\ intersects(empty[i], empty[j])

\* pack_global has returned.
Returned == call = "pack_global" /\ pc = "idle"
ItemsOf(pk) == {pk[m].item : m \in DOMAIN pk}
Range(seq) == {seq[k] : k \in DOMAIN seq}

\* The pairs of pk carry the positions of the latest placements, in order.
CarriesPositions(pk) ==
    /\ Len(pk) <= Len(placed)
    /\ \A m \in DOMAIN pk :
          LET occ == placed[Len(placed) - Len(pk) + m]
          IN /\ occ.min = pk[m].pos
             /\ occ.max = <<pk[m].pos[1] + pk[m].item.size[1],
                            pk[m].pos[2] + pk[m].item.size[2]>>

\* C6: pack_global returns Ok exactly when every input item was placed;
\* otherwise the failure carries the items placed so far with their
\* positions and a non-empty remainder of unplaced input items; an empty
\* input gives Ok with an empty result.
C6_OkIffAllPlaced ==
    Returned =>
        /\ ret.kind \in {"Ok", "Err"}
        /\ ret.kind = "Ok" <=> Range(input) \subseteq ItemsOf(ret.packed)
        /\ CarriesPositions(ret.packed)
        /\ ret.kind = "Err" =>
              /\ ret.original # <<>>
              /\ Range(ret.original) = Range(input) \ ItemsOf(ret.packed)
        /\ input = <<>> => (ret.kind = "Ok" /\ ret.packed = <<>>)

\* C6 witness: a failure that carries a placed item and an unplaced one.
C6_Witness ==
    /\ Returned /\ ret.kind = "Err"
    /\ Len(ret.packed) >= 1 /\ Len(ret.original) >= 1

IdsOf(seq) == {seq[k].id : k \in DOMAIN seq}

\* C7 (as stated): the unplaced items of a failure are exactly the input
\* items for which optimal() found no placement in any round of the call.
C7_Original ==
    (Returned /\ ret.kind = "Err") =>
        IdsOf(ret.original) = IdsOf(input) \ viable

\* C7 (amended): the unplaced items of a failure are exactly the input items
\* committed in no round, and optimal() finds no placement for any of them
\* in the last round, against the free list the call leaves behind.
C7_UnplacedNotViableAtEnd ==
    (Returned /\ ret.kind = "Err") =>
        /\ IdsOf(ret.original) = IdsOf(input) \ {it.id : it \in ItemsOf(ret.packed)}
        /\ \A k \in DOMAIN ret.original :
              ~\E i \in DOMAIN empty : CanContain(empty[i], ret.original[k].size)

\* C7 witness: a failure whose unplaced item had a placement in an earlier
\* round and lost it to the item committed then.
C7_Witness ==
    /\ Returned /\ ret.kind = "Err"
    /\ Len(ret.packed) >= 1
    /\ IdsOf(ret.original) \cap viable # {}

\* Independent reading of the best-short-side-fit score.
Score(f, size) ==
    LET dw == (f.max[1] - f.min[1]) - size[1]
        dh == (f.max[2] - f.min[2]) - size[2]
    IN IF dw < dh THEN dw ELSE dh

Committing == pc = "global" /\ Len(packed') > Len(packed)

\* C8: the pair committed in a round of pack_global has the minimum score
\* over all pairs of a remaining item and a free rectangle that can contain
\* it, and every item before it in the remaining order scores higher.
C8_CommitsGlobalMinimum ==
    [][Committing =>
          LET c == packed'[Len(packed')] IN
          \E k \in DOMAIN objects : \E f \in DOMAIN empty :
              /\ objects[k] = c.item
              /\ CanContain(empty[f], c.item.size)
              /\ empty[f].min = c.pos
              /\ \A k2 \in DOMAIN objects : \A f2 \in DOMAIN empty :
                    CanContain(empty[f2], objects[k2].size) =>
                        /\ Score(empty[f2], objects[k2].size)
                               >= Score(empty[f], c.item.size)
                        /\ k2 < k => Score(empty[f2], objects[k2].size)
                                        > Score(empty[f], c.item.size)]_vars

\* C8 witness: a round committed the second of two input items first.
C8_Witness ==
    /\ pc = "global"
    /\ Len(input) >= 2 /\ Len(packed) = 1
    /\ packed[1].item = input[2]
    /\ Len(objects) >= 1

\* C9: a successful pack returns the min corner of the first free rectangle,
\* in list order, among those that can contain the size with minimum score.
C9_PackChoosesFirstMinimum ==
    [][\A size \in Sizes :
          (Pack(size[1], size[2]) /\ ret'.kind = "Some") =>
              \E f \in DOMAIN empty :
                  /\ CanContain(empty[f], size)
                  /\ ret'.pos = empty[f].min
                  /\ \A g \in DOMAIN empty :
                        CanContain(empty[g], size) =>
                            /\ Score(empty[g], size) >= Score(empty[f], size)
                            /\ g < f => Score(empty[g], size)
                                           > Score(empty[f], size)]_vars

\* C9 witness: after an earlier placement split the free area, pack chose a
\* free rectangle away from the origin.
C9_Witness ==
    /\ call = "pack" /\ ret.kind = "Some"
    /\ Len(placed) >= 2
    /\ ret.pos = LastPlaced.min
    /\ ret.pos[1] > 0

\* C10: add_free panics exactly when min.x > max.x or min.y > max.y and then
\* leaves the free list as it was; otherwise, a region with min = max on an
\* axis included, it appends the region.
C10_AddFreePanicsIffInverted ==
    [][\A in \in AddInputs :
          AddFree(in[1], in[2]) =>
              LET inverted == in[1][1] > in[2][1] \/ in[1][2] > in[2][2] IN
              /\ ret'.kind = "Panic" <=> inverted
              /\ inverted => empty' = empty
              /\ ~inverted =>
                    empty' = Append(empty, [min |-> in[1], max |-> in[2]])]_vars

\* C10 witness: add_free panicked on a packer whose free list holds an
\* accepted region with min = max on an axis.
C10_Witness ==
    /\ call = "add_free" /\ ret.kind = "Panic"
    /\ \E i \in DOMAIN empty : empty[i].min[1] = empty[i].max[1]

\* C11: a pack that returns None leaves the free list exactly as it was,
\* same rectangles in the same order.
C11_PackNoneLeavesFreeList ==
    [][\A size \in Sizes :
          (Pack(size[1], size[2]) /\ ret'.kind = "None") => empty' = empty]_vars

\* C11 witness: pack returned None on a free list that a pruning pass would
\* have shortened.
C11_Witness ==
    /\ call = "pack" /\ ret.kind = "None"
    /\ \E i \in DOMAIN empty : \E j \in DOMAIN empty :
          i # j /\ supersets(empty[i], empty[j])

Count(seq, x) == Cardinality({k \in DOMAIN seq : seq[k] = x})
SameItems(a, b) ==
    /\ Len(a) = Len(b)
    /\ \A x \in Range(a) \cup Range(b) : Count(a, x) = Count(b, x)
PackedItems(pk) == [m \in DOMAIN pk |-> pk[m].item]

\* C12: in every round of pack_global the items packed so far together with
\* the remaining ones are the input items, each exactly once; Ok returns a
\* permutation of the input, and restore() on a failure returns one too.
C12_ItemsConserved ==
    /\ pc = "global" => SameItems(PackedItems(packed) \o objects, input)
    /\ (Returned /\ ret.kind = "Ok") => SameItems(PackedItems(ret.packed), input)
    /\ (Returned /\ ret.kind = "Err") =>
          SameItems(restore(ret.packed, ret.original), input)

\* C12 witness: a failure after a commit whose restore() is the input in a
\* different order.
C12_Witness ==
    /\ Returned /\ ret.kind = "Err"
    /\ Len(ret.packed) >= 1
    /\ restore(ret.packed, ret.original) # input

SomeObjectFits(objs, e) ==
    \E k \in DOMAIN objs : \E i \in DOMAIN e : CanContain(e[i], objs[k].size)

\* C13: pack_global terminates: each round either commits exactly one item,
\* which happens only while some remaining item fits a free rectangle, or
\* returns, which happens only when none does, leaving the free list alone
\* and reporting the remaining items; commits never outnumber the input
\* items; and every call returns.
C13_GlobalTerminates ==
    /\ [][pc = "global" =>
            \/ /\ pc' = "global"
               /\ SomeObjectFits(objects, empty)
               /\ Len(packed') = Len(packed) + 1
               /\ Len(objects') = Len(objects) - 1
            \/ /\ pc' = "idle"
               /\ ~SomeObjectFits(objects, empty)
               /\ empty' = empty
               /\ ~SomeObjectFits(ret'.original, empty')
               /\ Len(ret'.packed) <= Len(input)]_vars
    /\ [](pc = "global" => Len(packed) <= Len(input))
    /\ (pc = "global") ~> (pc = "idle")

\* C13 witness: a call returned after two commits.
C13_Witness ==
    /\ Returned
    /\ Len(ret.packed) >= 2

\* Unit cells of the grid, each named by its min corner; a rectangle with
\* integer corners covers exactly the points of the cells it covers.
Cells == (0..(MaxCoord - 1)) \X (0..(MaxCoord - 1))
Covers(r, c) ==
    /\ r.min[1] <= c[1] /\ c[1] + 1 <= r.max[1]
    /\ r.min[2] <= c[2] /\ c[2] + 1 <= r.max[2]
Covered(e) == {c \in Cells : \E i \in DOMAIN e : Covers(e[i], c)}

\* C14: a placement leaves covered by the free list exactly the area that
\* was covered before and is not inside the occupied rectangle.
C14_FreeAreaIsOldMinusOccupied ==
    [][Placing =>
          Covered(empty') = {c \in Covered(empty) : ~Covers(NewPlaced, c)}]_vars

\* C14 witness: a placement of positive area after which free area is left
\* and the free list holds overlapping rectangles.
C14_Witness ==
    /\ AfterSubtract
    /\ PositiveArea(LastPlaced)
    /\ Len(placed) >= 2
    /\ Covered(empty) # {}
    /\ \E i \in DOMAIN empty : \E j \in DOMAIN empty :
          i # j /\ intersects(empty[i], empty[j])

\* Rectangles of positive area with corners on the grid.
GridRects ==
    {r \in [min : Coord \X Coord, max : Coord \X Coord] : PositiveArea(r)}

\* r lies in the registered area and meets no placed rectangle.
Unoccupied(r) ==
    /\ \E reg \in registered : supersets(reg, r)
    /\ \A k \in DOMAIN placed : ~intersects(r, placed[k])

\* One add_free, made before any placement, and only items of positive
\* width and height placed.
SingleRegion ==
    /\ nAdd = 1 /\ ~lateAdd
    /\ \A k \in DOMAIN placed : PositiveArea(placed[k])

\* C15: with a single registered region and items of positive size, every
\* unoccupied rectangle lies inside an entry of the free list that is itself
\* unoccupied, so every maximal unoccupied rectangle is an entry; and a
\* pack(w, h) with w, h > 0 that returns None has no unoccupied w-by-h
\* rectangle anywhere in the region.
C15_FreeListHoldsMaximalRects ==
    /\ [](SingleRegion =>
            \A r \in GridRects :
                Unoccupied(r) =>
                    \E i \in DOMAIN empty :
                        supersets(empty[i], r) /\ Unoccupied(empty[i]))
    /\ [][\A size \in Sizes :
            (/\ size[1] > 0 /\ size[2] > 0
             /\ SingleRegion
             /\ Pack(size[1], size[2]) /\ ret'.kind = "None") =>
                ~\E r \in GridRects :
                    Unoccupied(r) /\ dimensions(r) = size]_vars

\* C15 witness: pack returned None while the single region, after a
\* placement, still has two overlapping free rectangles.
C15_Witness ==
    /\ SingleRegion
    /\ call = "pack" /\ ret.kind = "None"
    /\ Len(placed) >= 1
    /\ \E i \in DOMAIN empty : \E j \in DOMAIN empty :
          i # j /\ intersects(empty[i], empty[j])

\* C16: right after a subtraction no entry of the free list intersects the
\* rectangle that was subtracted; and while no region has been registered
\* after the first placement, no entry of the free list intersects any
\* rectangle placed so far.
C16_FreeListAvoidsOccupied ==
    /\ AfterSubtract =>
          \A i \in DOMAIN empty : ~intersects(empty[i], LastPlaced)
    /\ ~lateAdd =>
          \A i \in DOMAIN empty : \A k \in DOMAIN placed :
              ~intersects(empty[i], placed[k])

\* C16 witness: a second subtraction has just run, no region was registered
\* since the first placement, and free rectangles remain.
C16_Witness ==
    /\ ~lateAdd /\ AfterSubtract
    /\ Len(placed) >= 2 /\ PositiveArea(LastPlaced)
    /\ Len(empty) >= 1

\* The four sides of the claim, each with its condition, for one free
\* rectangle f split by occ.
SideTable(f, occ) ==
    << [emit |-> occ.min[1] > f.min[1],
        rect |-> [min |-> f.min, max |-> <<occ.min[1], f.max[2]>>]],
       [emit |-> occ.min[2] > f.min[2],
        rect |-> [min |-> f.min, max |-> <<f.max[1], occ.min[2]>>]],
       [emit |-> occ.max[1] < f.max[1],
        rect |-> [min |-> <<occ.max[1], f.min[2]>>, max |-> f.max]],
       [emit |-> occ.max[2] < f.max[2],
        rect |-> [min |-> <<f.min[1], occ.max[2]>>, max |-> f.max]] >>
Emitted(side) == side.emit
SidesOf(f, occ) ==
    LET t == SelectSeq(SideTable(f, occ), Emitted)
    IN  [n \in DOMAIN t |-> t[n].rect]

\* Strict intersection of half-open rectangles: the open interiors of the
\* two extents overlap on both axes.
StrictlyIntersects(f, occ) ==
    /\ f.min[1] < occ.max[1] /\ occ.min[1] < f.max[1]
    /\ f.min[2] < occ.max[2] /\ occ.min[2] < f.max[2]

\* What the claim says the scan leaves: every free rectangle that does not
\* strictly intersect occ, and the sides of every one that does.
RECURSIVE SplitAll(_, _)
SplitAll(e, occ) ==
    IF e = <<>> THEN <<>>
    ELSE (IF StrictlyIntersects(Head(e), occ)
             THEN SidesOf(Head(e), occ) ELSE <<Head(e)>>)
         \o SplitAll(Tail(e), occ)

\* A free rectangle that meets occ on an edge or a corner only.
TouchesOnly(f, occ) ==
    /\ ~StrictlyIntersects(f, occ)
    /\ f.min[1] <= occ.max[1] /\ occ.min[1] <= f.max[1]
    /\ f.min[2] <= occ.max[2] /\ occ.min[2] <= f.max[2]

\* C17: on every placing step the scan of subtract_rect leaves, as a
\* multiset, exactly the free rectangles that do not strictly intersect the
\* occupied rectangle together with the left, bottom, right and top
\* residuals (each under its condition) of those that do; a rectangle that
\* only touches the occupied one is kept whole; and the free list after the
\* call holds nothing else.
C17_SplitIntoFourSides ==
    [][Placing =>
        LET occ == NewPlaced
            scanned == ScanLoop(empty, occ, 1, 0)
            wanted == SplitAll(empty, occ)
        IN  /\ SameItems(scanned, wanted)
            /\ \A i \in DOMAIN empty :
                  TouchesOnly(empty[i], occ) =>
                      Count(scanned, empty[i]) >= Count(empty, empty[i])
            /\ Range(empty') \subseteq Range(wanted)
            /\ \A r \in Range(wanted) :
                  \E i \in DOMAIN empty' : supersets(empty'[i], r)]_vars

\* C17 witness: a second placement of positive area has split a free
\* rectangle, and the list still holds a rectangle that touches both this
\* placement and an earlier one without intersecting either.
C17_Witness ==
    /\ AfterSubtract /\ PositiveArea(LastPlaced)
    /\ Len(placed) >= 2
    /\ \E i \in DOMAIN empty :
          /\ PositiveArea(empty[i])
          /\ TouchesOnly(empty[i], LastPlaced)
          /\ \E k \in DOMAIN placed : TouchesOnly(empty[i], placed[k])

Rects(te) == [k \in DOMAIN te |-> te[k].rect]

\* One loop-head configuration of the scan: from index on, the entries
\* pushed during this pass are exactly the last `derived` ones and every
\* other entry is an untested original; before index there are only
\* pushed entries and originals that were tested.
ScanConfigOk(c) ==
    \A p \in DOMAIN c.e :
        IF p >= c.index
        THEN /\ (c.e[p].tag = 0) <=> (p > Len(c.e) - c.derived)
             /\ c.e[p].tag # 0 => Count(c.tested, c.e[p].tag) = 0
        ELSE c.e[p].tag # 0 => Count(c.tested, c.e[p].tag) = 1

\* C18: in the scan of every subtract_rect, each rectangle that was in the
\* free list at the start is read as `free` exactly once and no rectangle
\* pushed during the pass ever is; at every loop head the last `derived`
\* entries are exactly the pushed rectangles not yet stepped over; and the
\* entry swap_remove moves into index is stepped over exactly when it is a
\* pushed rectangle.  The traced loop ends with the list ScanLoop returns.
C18_ScanTestsOriginalsOnce ==
    [][Placing =>
        \A occ \in {NewPlaced} :
        \A tr \in {ScanTrace(Tagged(empty), occ, 1, 0, <<>>)} :
        \A last \in {tr[Len(tr)]} :
            /\ \A k \in DOMAIN empty : Count(last.tested, k) = 1
            /\ Count(last.tested, 0) = 0
            /\ \A n \in DOMAIN tr : ScanConfigOk(tr[n])
            /\ \A n \in 1..(Len(tr) - 1) :
                  MovedIn(tr, occ, n) =>
                      ((tr[n + 1].index = tr[n].index + 1)
                          <=> (tr[n + 1].e[tr[n].index].tag = 0))
            /\ Rects(last.e) = ScanLoop(empty, occ, 1, 0)]_vars

\* C18 witness: the scan of the latest subtraction both stepped over a
\* pushed rectangle that was swapped into index and stayed on an original
\* that was swapped into index.
C18_Witness ==
    /\ AfterSubtract
    /\ scan.skipped /\ scan.moved

\* The occupied rectangles of the items a finished pack_global committed, in
\* commit order: the latest Len(ret.packed) placements.
Committed ==
    [m \in DOMAIN ret.packed |-> placed[Len(placed) - Len(ret.packed) + m]]

\* subtract_rect applied for every rectangle of occ in turn.
RECURSIVE SubtractAll(_, _)
SubtractAll(e, occ) ==
    IF occ = <<>> THEN e
    ELSE SubtractAll(subtract_rect(e, Head(occ)), Tail(occ))

Failed == Returned /\ ret.kind = "Err"

\* C19 (as stated): after a failed pack_global the free list is the one at
\* the start of the call with the committed rectangles subtracted in commit
\* order, and it equals the starting one only when nothing was placed.
C19_Original ==
    Failed =>
        /\ empty = SubtractAll(emptyAtCall, Committed)
        /\ Range(empty) = Range(emptyAtCall) => ret.packed = <<>>

\* C19 (amended): after a failed pack_global the free list is the one at
\* the start of the call with the committed rectangles subtracted in commit
\* order; it is the starting list when nothing was placed, and it differs
\* from it whenever an item of positive width and height was placed.
C19_FailureKeepsSubtractions ==
    Failed =>
        /\ empty = SubtractAll(emptyAtCall, Committed)
        /\ ret.packed = <<>> => empty = emptyAtCall
        /\ (\E m \in DOMAIN Committed : PositiveArea(Committed[m])) =>
              Range(empty) # Range(emptyAtCall)

\* C19 witness: a failed pack_global that had committed at least two items,
\* one of them of positive area, and left free rectangles behind.
C19_Witness ==
    /\ Failed
    /\ Len(ret.packed) >= 2
    /\ \E m \in DOMAIN Committed : PositiveArea(Committed[m])
    /\ empty # <<>> /\ empty # emptyAtCall

\* min <= max on both axes.
Ordered(r) == r.min[1] <= r.max[1] /\ r.min[2] <= r.max[2]

\* The subtractions dimensions() and bssf() make for free rectangle r and an
\* item of the given size stay at or above zero: an unsigned scalar does
\* not underflow.
NoUnderflow(r, size) ==
    /\ dimensions(r)[1] >= 0 /\ dimensions(r)[2] >= 0
    /\ IsSome(bssf(dimensions(r), size)) =>
          /\ dimensions(r)[1] - size[1] >= 0
          /\ dimensions(r)[2] - size[2] >= 0

\* C20: in every reachable state every rectangle of the free list has
\* min <= max on both axes and no subtraction of dimensions() or bssf()
\* goes below zero for any item size; on every placing step the rectangles
\* the scan leaves (residuals included) are ordered too, and the placed
\* rectangle starts at the min corner of a free rectangle and ends at or
\* before its max corner.
C20_FreeRectsOrdered ==
    /\ [](\A i \in DOMAIN empty :
            /\ Ordered(empty[i])
            /\ \A size \in Sizes \cup GlobalSizes : NoUnderflow(empty[i], size))
    /\ [][Placing =>
            LET occ == NewPlaced
                scanned == ScanLoop(empty, occ, 1, 0)
            IN  /\ \A n \in DOMAIN scanned : Ordered(scanned[n])
                /\ Ordered(occ)
                /\ \E i \in DOMAIN empty :
                      /\ empty[i].min = occ.min
                      /\ occ.max[1] <= empty[i].max[1]
                      /\ occ.max[2] <= empty[i].max[2]]_vars

\* C20 witness: a second placement of positive area that ends exactly at
\* the far corner of the canvas, with residual free rectangles left over.
C20_Witness ==
    /\ AfterSubtract /\ Len(placed) >= 2
    /\ PositiveArea(LastPlaced)
    /\ LastPlaced.max = <<MaxCoord, MaxCoord>>
    /\ empty # <<>>

====
